---- MODULE Spec2Model ----
(***************************************************************************)
(* Model of pmp::SurfaceTriangulation                                      *)
(* (src/src/pmp/algorithms/SurfaceTriangulation.cpp).                      *)
(*                                                                         *)
(* The mesh is a list of faces, each a cyclic list of vertex handles with  *)
(* a deleted flag.  A halfedge a->b exists on the side of a live face that *)
(* lists a immediately before b; an edge exists when one of its two        *)
(* halfedges does.  The whole-mesh loop, the boundary walk, the size       *)
(* check, the table initialisation, every cell of the dynamic programme    *)
(* and every iteration of the emitter loop is one step.                    *)
(*                                                                         *)
(* Polygon-local indices are 0-based as in the source; vertices_ and       *)
(* halfedges_ are sequences, so vertices_[i] of the source is At(_, i).    *)
(***************************************************************************)
EXTENDS Integers, Sequences, FiniteSets, TLC

VARIABLES
    faces,       \* mesh_: the faces, [verts, deleted], in handle order
    nverts,      \* mesh_: number of vertices (handles 1..nverts)
    points_,     \* "v:point" property: vertex handle -> <<x, y, z>>
    pc,          \* position of the program
    fi,          \* whole-mesh loop: handle of the current face
    fend,        \* whole-mesh loop: faces().end(), fixed when the loop starts
    hpos,        \* boundary walk: the halfedge h (its position in the face)
    halfedges_,  \* collected halfedges, <<face, position>>
    vertices_,   \* collected vertices
    weight_,     \* DP table of weights
    index_,      \* DP table of splits
    dp_i,        \* loop counter i of the DP
    dp_j,        \* loop counter j of the DP
    todo,        \* the emitter's stack of intervals <<start, end>>
    faces0,      \* history: the faces when triangulate(f) was entered
    emitted,     \* history: <<start, split, end>> of each add_triangle of this face
    visited,     \* history: intervals with end - start >= 2 popped for this face
    ubReads      \* history: number of emitter steps that read out of range

vars == <<faces, nverts, points_, pc, fi, fend, hpos, halfedges_, vertices_,
          weight_, index_, dp_i, dp_j, todo, faces0, emitted, visited, ubReads>>

----------------------------------------------------------------------------
(* Bounds of the model *)

\* largest isolated polygon of the catalogue
MaxN == 6
\* free vertices take positions on the grid 0..MaxCoord x 0..MaxCoord
MaxCoord == 2
\* emitter steps with an out-of-range read that are followed before a crash
MaxUB == 1

\* stand-in for FLT_MAX: every finite cost of the model is far below it
FLT_MAX == 1000000000
\* any Scalar above FLT_MAX (+inf in float, 2*FLT_MAX or 3*FLT_MAX in double)
Infinity == FLT_MAX + 1

----------------------------------------------------------------------------
(* Scalar and vector arithmetic *)

\* Scalar addition: a sum with one FLT_MAX term absorbs the finite term,
\* a sum of two terms >= FLT_MAX lies above FLT_MAX
FAdd(a, b) ==
    IF a >= FLT_MAX /\ b >= FLT_MAX THEN Infinity
    ELSE IF a >= FLT_MAX THEN a
    ELSE IF b >= FLT_MAX THEN b
    ELSE a + b

VSub(p, q) == <<p[1] - q[1], p[2] - q[2], p[3] - q[3]>>

cross(u, v) ==
    <<u[2] * v[3] - u[3] * v[2],
      u[3] * v[1] - u[1] * v[3],
      u[1] * v[2] - u[2] * v[1]>>

sqrnorm(u) == u[1] * u[1] + u[2] * u[2] + u[3] * u[3]

----------------------------------------------------------------------------
(* The mesh collaborator *)

NextPos(len, p) == (p % len) + 1

\* a live face of fs has the halfedge a -> b on its boundary
HasFaceHalfedge(fs, a, b) ==
    \E f \in 1..Len(fs) :
        /\ ~fs[f].deleted
        /\ \E p \in 1..Len(fs[f].verts) :
              /\ fs[f].verts[p] = a
              /\ fs[f].verts[NextPos(Len(fs[f].verts), p)] = b

\* mesh_.find_halfedge(a, b).is_valid()
find_halfedge(fs, a, b) == HasFaceHalfedge(fs, a, b) \/ HasFaceHalfedge(fs, b, a)

\* mesh_.is_boundary(h) for the halfedge h = a -> b
is_boundary(fs, a, b) == ~HasFaceHalfedge(fs, a, b)

\* mesh_.is_manifold(v): fewer than two boundary halfedges leave v
is_manifold(fs, nv, v) ==
    Cardinality({w \in 1..nv : find_halfedge(fs, v, w) /\ is_boundary(fs, v, w)}) < 2

delete_face(fs, f) == [fs EXCEPT ![f].deleted = TRUE]

add_triangle(fs, a, b, c) == Append(fs, [verts |-> <<a, b, c>>, deleted |-> FALSE])

garbage_collection(fs) == SelectSeq(fs, LAMBDA r : ~r.deleted)

\* mesh_.to_vertex(h) for h = <<f, p>>
to_vertex(fs, h) == fs[h[1]].verts[h[2]]

\* mesh_.next_halfedge(h)
next_halfedge(fs, h) == <<h[1], NextPos(Len(fs[h[1]].verts), h[2])>>

\* mesh_.halfedge(f)
halfedge(f) == <<f, 1>>

LiveFaces(fs) == {f \in 1..Len(fs) : ~fs[f].deleted}

EdgeSet(fs, nv) == {e \in SUBSET (1..nv) :
                      /\ Cardinality(e) = 2
                      /\ \E a \in e : \E b \in e : a # b /\ find_halfedge(fs, a, b)}

----------------------------------------------------------------------------
(* SurfaceTriangulation: helpers *)

At(s, k) == s[k + 1]

n == Len(halfedges_)

\* is_interior_edge(_a, _b), evaluated on the mesh fs
is_interior_edge(fs, a, b) ==
    IF ~find_halfedge(fs, a, b)
    THEN FALSE
    ELSE ~is_boundary(fs, a, b) /\ ~is_boundary(fs, b, a)

\* compute_weight(i, j, k), evaluated on the mesh fs
compute_weight(fs, i, j, k) ==
    LET a == At(vertices_, i)
        b == At(vertices_, j)
        c == At(vertices_, k)
    IN  IF \/ is_interior_edge(fs, a, b)
           \/ is_interior_edge(fs, b, c)
           \/ is_interior_edge(fs, c, a)
        THEN FLT_MAX
        ELSE sqrnorm(cross(VSub(points_[b], points_[a]), VSub(points_[c], points_[a])))

Candidate_NoRight(fs, W, i, m, k) == FAdd(W[i][m], compute_weight(fs, i, m, k))

\* w of the inner loop for the split m of the interval (i, k)
Candidate(fs, W, i, m, k) ==
    FAdd(FAdd(W[i][m], compute_weight(fs, i, m, k)), W[m][k])

Improves_OrEqual(w, wmin) == w <= wmin

\* "if (w < wmin)"
Improves(w, wmin) == w < wmin

RECURSIVE ScanSplits(_, _, _, _, _, _)
\* the loop "for (m = i + 1; m < k; ++m)" from m on, best = [wmin, imin] so far
ScanSplits(fs, W, i, k, m, best) ==
    IF m >= k
    THEN best
    ELSE LET w == Candidate(fs, W, i, m, k)
         IN  ScanSplits(fs, W, i, k, m + 1,
                        IF Improves(w, best.wmin) THEN [wmin |-> w, imin |-> m] ELSE best)

\* wmin and imin after the inner loop of the cell [i, k]
BestSplit(fs, W, i, k) ==
    ScanSplits(fs, W, i, k, i + 1, [wmin |-> FLT_MAX, imin |-> -1])

TooSmall_Two(len) == len <= 2

\* "if (n <= 3) return;"
TooSmall(len) == len <= 3

Rejects_Never(fs, nv, v) == FALSE

\* "if (!mesh_.is_manifold(mesh_.to_vertex(h)))"
Rejects(fs, nv, v) == ~is_manifold(fs, nv, v)

LoopJ_Short(j) == j < n - 1

\* the condition "j < n" of the loop over the chain lengths
LoopJ(j) == j < n

IsSingleEdge_Three(start, end) == end - start < 3

\* "if (end - start < 2) continue;"
IsSingleEdge(start, end) == end - start < 2

Children_LeftOnly(start, split, end) == << <<start, split>> >>

\* the two intervals pushed after a triangle
Children(start, split, end) == << <<start, split>>, <<split, end>> >>

InsertTriangle_ByIndex(fs, start, split, end) == add_triangle(fs, start, split, end)

\* "mesh_.add_triangle(vertices_[start], vertices_[split], vertices_[end]);"
InsertTriangle(fs, start, split, end) ==
    add_triangle(fs, At(vertices_, start), At(vertices_, split), At(vertices_, end))

----------------------------------------------------------------------------
(* Initial meshes *)

MkFaces(fl) == [f \in 1..Len(fl) |-> [verts |-> fl[f], deleted |-> FALSE]]

Ngon(k) == << [v \in 1..k |-> v] >>

\* two quads glued back to back
QuadPillow == << <<1, 2, 3, 4>>, <<4, 3, 2, 1>> >>

\* a quad closed by two triangles over its diagonal 1-3
DiagPillow == << <<1, 2, 3, 4>>, <<2, 1, 3>>, <<3, 1, 4>> >>

\* the same mesh, the quad's walk starting one vertex later
DiagPillowRot == << <<2, 3, 4, 1>>, <<2, 1, 3>>, <<3, 1, 4>> >>

\* a hexagon closed by two quads over its diagonal 1-4
HexPillow == << <<1, 2, 3, 4, 5, 6>>, <<4, 3, 2, 1>>, <<1, 6, 5, 4>> >>

\* vertex 3 joins two fans; the third face has manifold vertices only
BowTie == << <<1, 2, 3>>, <<3, 4, 5, 6>>, <<5, 4, 7, 8>> >>

\* an open strip of a quad and a pentagon
Strip == << <<1, 2, 3, 4>>, <<2, 5, 6, 7, 3>> >>

\* the torus map {4,4}_(2,1): five quads on the complete graph K5
K5Torus == << <<1, 2, 4, 3>>, <<2, 3, 5, 4>>, <<3, 4, 1, 5>>,
              <<4, 5, 2, 1>>, <<5, 1, 3, 2>> >>

\* K5Torus with vertex 6 inserted on the edge 1-2
K5TorusSplit == << <<2, 4, 3, 1, 6>>, <<2, 3, 5, 4>>, <<3, 4, 1, 5>>,
                   <<4, 5, 2, 6, 1>>, <<5, 1, 3, 2>> >>

Catalogue ==
    {Ngon(k) : k \in 3..MaxN}
    \cup {QuadPillow, DiagPillow, DiagPillowRot, HexPillow, BowTie, Strip,
          K5Torus, K5TorusSplit}

MaxVertex(fl) ==
    CHOOSE v \in 1..(MaxN + 8) :
        /\ \E f \in 1..Len(fl) : \E p \in 1..Len(fl[f]) : fl[f][p] = v
        /\ \A f \in 1..Len(fl) : \A p \in 1..Len(fl[f]) : fl[f][p] <= v

DefaultPoint(v) ==
    CASE v = 1 -> <<0, 0, 0>>
      [] v = 2 -> <<1, 0, 0>>
      [] v = 3 -> <<1, 1, 0>>
      [] v = 4 -> <<0, 1, 0>>
      [] v = 5 -> <<-1, 2, 1>>
      [] v = 6 -> <<-2, 0, 0>>
      [] v = 7 -> <<2, 3, 1>>
      [] OTHER -> <<v, 2 * v - 13, v % 3>>

PointSet == {<<x, y, 0>> : x \in 0..MaxCoord, y \in 0..MaxCoord}

\* the vertices whose position varies over PointSet; the others lie at
\* their DefaultPoint
FreeVertices == {1, 3}

Init ==
    /\ \E fl \in Catalogue :
          /\ faces = MkFaces(fl)
          /\ nverts = MaxVertex(fl)
    /\ \E g \in [FreeVertices -> PointSet] :
          points_ = [v \in 1..nverts |->
                       IF v \in FreeVertices THEN g[v] ELSE DefaultPoint(v)]
    /\ pc = "driver"
    /\ fi = 1
    /\ fend = Len(faces) + 1
    /\ hpos = 1
    /\ halfedges_ = <<>>
    /\ vertices_ = <<>>
    /\ weight_ = <<>>
    /\ index_ = <<>>
    /\ dp_i = 0
    /\ dp_j = 0
    /\ todo = <<>>
    /\ faces0 = faces
    /\ emitted = <<>>
    /\ visited = {}
    /\ ubReads = 0

----------------------------------------------------------------------------
(* triangulate(): the whole-mesh loop *)

\* the loop calls triangulate(f): lines 32-37
StartFace ==
    /\ pc = "driver"
    /\ fi < fend
    /\ pc' = "collect"
    /\ hpos' = halfedge(fi)[2]
    /\ halfedges_' = <<>>
    /\ vertices_' = <<>>
    /\ faces0' = faces
    /\ emitted' = <<>>
    /\ visited' = {}
    /\ UNCHANGED <<faces, nverts, points_, fi, fend, weight_, index_, dp_i, dp_j,
                   todo, ubReads>>

\* after the loop: garbage collection
Finish ==
    /\ pc = "driver"
    /\ fi >= fend
    /\ faces' = garbage_collection(faces)
    /\ pc' = "finished"
    /\ UNCHANGED <<nverts, points_, fi, fend, hpos, halfedges_, vertices_, weight_,
                   index_, dp_i, dp_j, todo, faces0, emitted, visited, ubReads>>

----------------------------------------------------------------------------
(* triangulate(Face f) *)

\* the state left by a return from triangulate(f)
Return ==
    /\ pc' = "driver"
    /\ fi' = fi + 1

\* one iteration of the do-while that collects the polygon's halfedges
Collect ==
    /\ pc = "collect"
    /\ LET h == <<fi, hpos>>
       IN  IF Rejects(faces, nverts, to_vertex(faces, h))
           THEN /\ Return
                /\ UNCHANGED <<faces, hpos, halfedges_, vertices_>>
           ELSE /\ halfedges_' = Append(halfedges_, h)
                /\ vertices_' = Append(vertices_, to_vertex(faces, h))
                /\ hpos' = next_halfedge(faces, h)[2]
                /\ IF next_halfedge(faces, h) # halfedge(fi)
                   THEN pc' = "collect"
                   ELSE pc' = "size"
                /\ UNCHANGED <<faces, fi>>
    /\ UNCHANGED <<nverts, points_, fend, weight_, index_, dp_i, dp_j, todo,
                   faces0, emitted, visited, ubReads>>

\* "if (n <= 3) return;" and "mesh_.delete_face(f);"
CheckSize ==
    /\ pc = "size"
    /\ IF TooSmall(n)
       THEN /\ Return
            /\ UNCHANGED faces
       ELSE /\ faces' = delete_face(faces, fi)
            /\ pc' = "tables"
            /\ UNCHANGED fi
    /\ UNCHANGED <<nverts, points_, fend, hpos, halfedges_, vertices_, weight_,
                   index_, dp_i, dp_j, todo, faces0, emitted, visited, ubReads>>

\* resize of the tables and the loop "initialize 2-gons"
InitTables ==
    /\ pc = "tables"
    /\ weight_' = [i \in 0..(n - 1) |->
                     [k \in 0..(n - 1) |-> IF k = i + 1 THEN 0 ELSE FLT_MAX]]
    /\ index_' = [i \in 0..(n - 1) |->
                    [k \in 0..(n - 1) |-> IF k = i + 1 THEN -1 ELSE 0]]
    /\ dp_j' = 2
    /\ dp_i' = 0
    /\ pc' = IF LoopJ(2) THEN "dp" ELSE "emit"
    /\ todo' = IF LoopJ(2) THEN todo ELSE << <<0, n - 1>> >>
    /\ UNCHANGED <<faces, nverts, points_, fi, fend, hpos, halfedges_, vertices_,
                   faces0, emitted, visited, ubReads>>

\* one cell [i, i+j] of the table, then the loop counters advance
DPStep ==
    /\ pc = "dp"
    /\ LET k == dp_i + dp_j
           best == BestSplit(faces, weight_, dp_i, k)
       IN  /\ weight_' = [weight_ EXCEPT ![dp_i][k] = best.wmin]
           /\ index_' = [index_ EXCEPT ![dp_i][k] = best.imin]
    /\ IF dp_i + 1 < n - dp_j
       THEN /\ dp_i' = dp_i + 1
            /\ UNCHANGED <<dp_j, pc, todo>>
       ELSE /\ dp_i' = 0
            /\ dp_j' = dp_j + 1
            /\ IF LoopJ(dp_j + 1)
               THEN UNCHANGED <<pc, todo>>
               ELSE /\ pc' = "emit"
                    /\ todo' = << <<0, n - 1>> >>
    /\ UNCHANGED <<faces, nverts, points_, fi, fend, hpos, halfedges_, vertices_,
                   faces0, emitted, visited, ubReads>>

----------------------------------------------------------------------------
(* The emitter: "now add triangles to mesh" *)

InRange(k) == k \in 0..(n - 1)

\* the values a read of index_[start][end] can produce: the stored split, or
\* any value when the access is outside the table
ReadIndex(start, end) ==
    IF InRange(start) /\ InRange(end) THEN {index_[start][end]} ELSE -1..(n - 1)

\* the values a read of vertices_[k] can produce: the stored handle, or any
\* handle when k is outside the list
ReadVertex(k) ==
    IF InRange(k) THEN {At(vertices_, k)} ELSE 1..nverts

\* the iteration pops an interval and reads outside index_ or vertices_
OutOfRange(start, split, end) ==
    ~InRange(start) \/ ~InRange(split) \/ ~InRange(end)

\* one iteration of "while (!todo.empty())" whose reads are all in range
EmitStep ==
    /\ pc = "emit"
    /\ todo # <<>>
    /\ LET tri == todo[Len(todo)]
           rest == SubSeq(todo, 1, Len(todo) - 1)
           start == tri[1]
           end == tri[2]
       IN  IF IsSingleEdge(start, end)
           THEN /\ todo' = rest
                /\ UNCHANGED <<faces, emitted, visited>>
           ELSE /\ InRange(start) /\ InRange(end)
                /\ LET split == index_[start][end]
                   IN  /\ InRange(split)
                       /\ faces' = InsertTriangle(faces, start, split, end)
                       /\ todo' = rest \o Children(start, split, end)
                       /\ emitted' = Append(emitted, <<start, split, end>>)
                       /\ visited' = visited \cup {<<start, end>>}
    /\ UNCHANGED <<nverts, points_, pc, fi, fend, hpos, halfedges_, vertices_,
                   weight_, index_, dp_i, dp_j, faces0, ubReads>>

\* an iteration that indexes index_ or vertices_ out of range and goes on
\* with whatever the reads produce
EmitOutOfRange ==
    /\ pc = "emit"
    /\ todo # <<>>
    /\ ubReads < MaxUB
    /\ LET tri == todo[Len(todo)]
           rest == SubSeq(todo, 1, Len(todo) - 1)
           start == tri[1]
           end == tri[2]
       IN  /\ ~IsSingleEdge(start, end)
           /\ \E split \in ReadIndex(start, end) :
                 /\ OutOfRange(start, split, end)
                 /\ \E a \in ReadVertex(start), b \in ReadVertex(split),
                       c \in ReadVertex(end) :
                       faces' = add_triangle(faces, a, b, c)
                 /\ todo' = rest \o Children(start, split, end)
                 /\ emitted' = Append(emitted, <<start, split, end>>)
                 /\ visited' = visited \cup {<<start, end>>}
    /\ ubReads' = ubReads + 1
    /\ UNCHANGED <<nverts, points_, pc, fi, fend, hpos, halfedges_, vertices_,
                   weight_, index_, dp_i, dp_j, faces0>>

\* an iteration that indexes index_ or vertices_ out of range and faults
EmitCrash ==
    /\ pc = "emit"
    /\ todo # <<>>
    /\ LET tri == todo[Len(todo)]
           start == tri[1]
           end == tri[2]
       IN  /\ ~IsSingleEdge(start, end)
           /\ \E split \in ReadIndex(start, end) : OutOfRange(start, split, end)
           /\ visited' = visited \cup {<<start, end>>}
    /\ pc' = "crashed"
    /\ UNCHANGED <<faces, nverts, points_, fi, fend, hpos, halfedges_, vertices_,
                   weight_, index_, dp_i, dp_j, todo, faces0, emitted, ubReads>>

\* the loop ends: todo is empty
EmitDone ==
    /\ pc = "emit"
    /\ todo = <<>>
    /\ pc' = "cleanup"
    /\ UNCHANGED <<faces, nverts, points_, fi, fend, hpos, halfedges_, vertices_,
                   weight_, index_, dp_i, dp_j, todo, faces0, emitted, visited,
                   ubReads>>

\* "clean up" and return
Cleanup ==
    /\ pc = "cleanup"
    /\ weight_' = <<>>
    /\ index_' = <<>>
    /\ halfedges_' = <<>>
    /\ vertices_' = <<>>
    /\ Return
    /\ UNCHANGED <<faces, nverts, points_, fend, hpos, dp_i, dp_j, todo, faces0,
                   emitted, visited, ubReads>>

----------------------------------------------------------------------------
Next ==
    \/ StartFace
    \/ Collect
    \/ CheckSize
    \/ InitTables
    \/ DPStep
    \/ EmitStep
    \/ EmitOutOfRange
    \/ EmitCrash
    \/ EmitDone
    \/ Cleanup
    \/ Finish

Spec == Init /\ [][Next]_vars

\* the emitter loop is sequential code: an iteration that can run does run
LiveSpec == Spec /\ WF_vars(EmitStep) /\ WF_vars(EmitDone)

----------------------------------------------------------------------------
(* Vocabulary of the properties *)

\* the mesh the cost evaluations of the current face read
MeshAtDP == delete_face(faces0, fi)

\* the vertices on the boundary of the face being processed, before the call
BoundaryVertices == {faces0[fi].verts[p] : p \in 1..Len(faces0[fi].verts)}

VertexSet(fs) == UNION {{fs[f].verts[p] : p \in 1..Len(fs[f].verts)} : f \in 1..Len(fs)}

\* the faces added since triangulate(f) was entered
AddedFaces == (Len(faces0) + 1)..Len(faces)

\* the edge a-b was interior when triangulate(f) was entered
InteriorBefore(a, b) == HasFaceHalfedge(faces0, a, b) /\ HasFaceHalfedge(faces0, b, a)

\* polygon-local pairs that are no boundary edge of the polygon
LocalDiagonals == {d \in (0..(n - 1)) \X (0..(n - 1)) :
                     d[1] + 1 < d[2] /\ ~(d[1] = 0 /\ d[2] = n - 1)}

NoInteriorConflict ==
    \A d \in LocalDiagonals : ~InteriorBefore(At(vertices_, d[1]), At(vertices_, d[2]))

\* a and b are consecutive on the boundary of the face being processed
OnOwnBoundary(a, b) ==
    \E p \in 1..Len(faces0[fi].verts) :
        LET q == NextPos(Len(faces0[fi].verts), p)
        IN  {faces0[fi].verts[p], faces0[fi].verts[q]} = {a, b}

----------------------------------------------------------------------------
(* C1 *)

\* C1: a face of n >= 4 manifold vertices none of whose diagonals is an
\* interior edge is replaced by n-2 triangles: when its emitter loop has
\* ended, exactly the face itself has been removed, exactly n-2 faces have
\* been added, each a triangle of three distinct boundary vertices of the
\* face, and the mesh has the vertices it had.
C1_RemovesOneAddsNMinus2 ==
    (pc = "cleanup" /\ NoInteriorConflict) =>
        /\ n >= 4
        /\ Len(faces) = Len(faces0) + n - 2
        /\ \A f \in 1..Len(faces0) :
              /\ faces[f].verts = faces0[f].verts
              /\ faces[f].deleted = (faces0[f].deleted \/ f = fi)
        /\ ~faces0[fi].deleted
        /\ \A f \in AddedFaces :
              /\ ~faces[f].deleted
              /\ Len(faces[f].verts) = 3
              /\ Cardinality({faces[f].verts[p] : p \in 1..3}) = 3
              /\ {faces[f].verts[p] : p \in 1..3} \subseteq BoundaryVertices
        /\ VertexSet(faces) = VertexSet(faces0)
        /\ VertexSet(faces) \subseteq 1..nverts

C1_Witness ==
    /\ pc = "cleanup"
    /\ NoInteriorConflict
    /\ n = 5
    /\ Len(faces0) > 1
    /\ Len(faces) = Len(faces0) + 3

----------------------------------------------------------------------------
(* C4 *)

\* C4: a step of the boundary walk that visits a non-manifold vertex returns
\* from triangulate(f) with the mesh as it was when the call was entered, and
\* leaves the whole-mesh loop at the next face.
C4_NonManifoldAbort ==
    [][(pc = "collect" /\ ~is_manifold(faces, nverts, to_vertex(faces, <<fi, hpos>>)))
          => (/\ faces' = faces
              /\ faces = faces0
              /\ nverts' = nverts
              /\ points_' = points_
              /\ pc' = "driver"
              /\ fi' = fi + 1
              /\ fend' = fend)]_vars

\* the quad before the current face was rejected for its non-manifold vertex
\* and is untouched, and the loop is triangulating the face after it
C4_Witness ==
    /\ pc = "tables"
    /\ fi = 3
    /\ ~faces[2].deleted
    /\ Len(faces[2].verts) = 4
    /\ \E p \in 1..4 : ~is_manifold(faces0, nverts, faces[2].verts[p])
    /\ Len(faces) = 3

----------------------------------------------------------------------------
(* C5 *)

\* C5: a face of at most three vertices is left alone: throughout the call
\* and after its return the mesh is the mesh the call was entered with, so
\* the number of live faces, the vertices and the edges are the same.
C5_SmallFaceNoOp ==
    LET f == IF pc = "driver" THEN fi - 1 ELSE fi
    IN  (/\ pc \in {"driver", "collect", "size", "tables", "dp", "emit", "cleanup"}
         /\ f >= 1
         /\ f < fend
         /\ Len(faces0[f].verts) <= 3)
        => /\ faces = faces0
           /\ pc \in {"driver", "collect", "size"}
           /\ Cardinality(LiveFaces(faces)) = Cardinality(LiveFaces(faces0))
           /\ EdgeSet(faces, nverts) = EdgeSet(faces0, nverts)
           /\ VertexSet(faces) = VertexSet(faces0)

\* a triangle whose vertices are all manifold has passed the size check and
\* the loop has gone on
C5_Witness ==
    /\ pc = "driver"
    /\ fi > 1
    /\ Len(faces0[fi - 1].verts) = 3
    /\ Len(halfedges_) = 3
    /\ faces = faces0

----------------------------------------------------------------------------
(* C7 *)

\* C7 as claimed: within a face every change of the mesh happens in the
\* emitter, after the tables are complete, and the cost evaluations read the
\* mesh the call was entered with.
C7_MutationOnlyAtEnd ==
    [][/\ (faces' # faces /\ pc # "driver") => (pc = "emit" /\ dp_j >= n)
       /\ pc = "dp" => faces = faces0]_vars

\* C7 amended: within a face the mesh changes in two places only.  The face
\* is deleted once its boundary is collected and found to have more than
\* three vertices, before the tables are computed.  Triangles are inserted
\* only after the whole table is computed.  Every cost evaluation reads the
\* mesh with the face deleted and none of its triangles inserted.
C7_DeleteThenTablesThenInsert ==
    [][/\ (faces' # faces /\ pc # "driver") =>
             \/ /\ pc = "size"
                /\ Len(vertices_) = Len(faces0[fi].verts)
                /\ n > 3
                /\ faces = faces0
                /\ faces' = delete_face(faces0, fi)
             \/ /\ pc = "emit"
                /\ dp_j >= n
                /\ n > 3
                /\ Len(faces') = Len(faces) + 1
                /\ SubSeq(faces', 1, Len(faces)) = faces
                /\ Len(faces'[Len(faces')].verts) = 3
       /\ pc = "dp" => faces = MeshAtDP]_vars

\* the tables of a face are complete and its first triangle is in the mesh
C7_Witness ==
    /\ pc = "emit"
    /\ Len(emitted) = 1
    /\ faces[fi].deleted
    /\ Len(faces) = Len(faces0) + 1

----------------------------------------------------------------------------
(* The tables *)

\* the tables are complete and no triangle of the face is in the mesh yet
TablesBuilt == pc = "emit" /\ emitted = <<>> /\ todo = << <<0, n - 1>> >>

\* the intervals [i, k] of more than one edge
Chains == {c \in (0..(n - 1)) \X (0..(n - 1)) : c[1] + 1 < c[2]}

SetMin(S) == CHOOSE x \in S : \A y \in S : x <= y

Cap(x) == IF x < FLT_MAX THEN x ELSE FLT_MAX

\* the candidates of the chain [i, k], recomputed from the stored weights
Candidates(i, k) == {Candidate(MeshAtDP, weight_, i, m, k) : m \in (i + 1)..(k - 1)}

\* the splits of [i, k] whose candidate is the minimum
MinSplits(i, k) ==
    {m \in (i + 1)..(k - 1) :
        Candidate(MeshAtDP, weight_, i, m, k) = SetMin(Candidates(i, k))}

RECURSIVE Triangulations(_, _)
\* every triangulation of the chain [i, k], as a set of triangles
Triangulations(i, k) ==
    IF k - i < 2
    THEN {{}}
    ELSE UNION {{{<<i, m, k>>} \cup L \cup R :
                    L \in Triangulations(i, m), R \in Triangulations(m, k)} :
                m \in (i + 1)..(k - 1)}

RECURSIVE TotalCost(_)
TotalCost(T) ==
    IF T = {}
    THEN 0
    ELSE LET t == CHOOSE x \in T : TRUE
         IN  FAdd(compute_weight(MeshAtDP, t[1], t[2], t[3]), TotalCost(T \ {t}))

\* the cheapest triangulation of [i, k] by enumeration
Cheapest(i, k) == SetMin({TotalCost(T) : T \in Triangulations(i, k)})

----------------------------------------------------------------------------
(* C3 *)

\* C3 as claimed: in the complete table W[i][i+1] = 0 and every other
\* W[i][j], i < j, is the minimum of its candidates and the cost of the
\* cheapest triangulation of the chain.
C3_TableIsMinimum ==
    TablesBuilt =>
        /\ \A i \in 0..(n - 2) : weight_[i][i + 1] = 0
        /\ \A c \in Chains :
              /\ weight_[c[1]][c[2]] = SetMin(Candidates(c[1], c[2]))
              /\ weight_[c[1]][c[2]] = Cheapest(c[1], c[2])

\* C3 amended: in the complete table W[i][i+1] = 0 and every other W[i][j],
\* i < j, is the minimum of its candidates, and the cost of the cheapest
\* triangulation of the chain, when that is below FLT_MAX, and is FLT_MAX
\* when it is not.
C3_TableIsCappedMinimum ==
    TablesBuilt =>
        /\ n >= 4
        /\ \A i \in 0..(n - 2) : weight_[i][i + 1] = 0
        /\ \A c \in Chains :
              /\ weight_[c[1]][c[2]] = Cap(SetMin(Candidates(c[1], c[2])))
              /\ weight_[c[1]][c[2]] = Cap(Cheapest(c[1], c[2]))

\* a complete table with a chain nothing can triangulate beside chains of
\* positive finite cost that have several triangulations
C3_Witness ==
    /\ TablesBuilt
    /\ n >= 5
    /\ weight_[0][n - 1] < FLT_MAX
    /\ weight_[0][n - 1] > 0
    /\ \E c \in Chains : SetMin(Candidates(c[1], c[2])) > FLT_MAX

----------------------------------------------------------------------------
(* C6 *)

\* C6 as claimed: whenever several splits of a chain reach the minimum
\* candidate the table stores the lowest of them.
C6_LowestOnTie ==
    TablesBuilt =>
        \A c \in Chains :
            Cardinality(MinSplits(c[1], c[2])) >= 2
                => index_[c[1]][c[2]] = SetMin(MinSplits(c[1], c[2]))

\* the two splits of a quad cost the same and the quad can be triangulated
SquareTie ==
    /\ n = 4
    /\ LET W == [i \in 0..3 |-> [k \in 0..3 |->
                   IF k = i + 1 THEN 0
                   ELSE IF k = i + 2 THEN compute_weight(MeshAtDP, i, i + 1, k)
                   ELSE FLT_MAX]]
       IN  /\ Candidate(MeshAtDP, W, 0, 1, 3) = Candidate(MeshAtDP, W, 0, 2, 3)
           /\ Candidate(MeshAtDP, W, 0, 1, 3) < FLT_MAX

\* C6 amended: the table stores for every chain the lowest split that
\* reaches the minimum candidate when that minimum is below FLT_MAX, and -1
\* when no candidate is below FLT_MAX; a quad whose two splits tie below
\* FLT_MAX becomes the two triangles of its split 1, (0,1,3) then (1,2,3).
C6_LowestFeasibleOnTie ==
    /\ TablesBuilt =>
          \A c \in Chains :
              index_[c[1]][c[2]] =
                  IF SetMin(Candidates(c[1], c[2])) < FLT_MAX
                  THEN SetMin(MinSplits(c[1], c[2]))
                  ELSE -1
    /\ (pc = "cleanup" /\ SquareTie) =>
          /\ index_[0][3] = 1
          /\ emitted = << <<0, 1, 3>>, <<1, 2, 3>> >>
          /\ Len(faces) = Len(faces0) + 2

\* a square of positive area has been triangulated
C6_Witness ==
    /\ pc = "cleanup"
    /\ SquareTie
    /\ weight_[0][3] > 0
    /\ Len(emitted) = 2

----------------------------------------------------------------------------
(* The emitter *)

\* the interval has a split strictly inside it
ValidSplit(start, end) ==
    /\ InRange(start)
    /\ InRange(end)
    /\ start < index_[start][end]
    /\ index_[start][end] < end

RECURSIVE ValidTree(_, _)
\* every interval the emitter reaches from (start, end) has a valid split
ValidTree(start, end) ==
    IF end - start < 2
    THEN TRUE
    ELSE /\ ValidSplit(start, end)
         /\ ValidTree(start, index_[start][end])
         /\ ValidTree(index_[start][end], end)

RECURSIVE Pending(_)
\* the triangles the intervals of a stack stand for
Pending(stack) ==
    IF stack = <<>>
    THEN 0
    ELSE LET iv == Head(stack)
         IN  (IF iv[2] - iv[1] < 2 THEN 0 ELSE iv[2] - iv[1] - 1) + Pending(Tail(stack))

----------------------------------------------------------------------------
(* C8 *)

\* C8: as long as every interval the emitter has visited had a valid split,
\* the triangles emitted and the triangles the stack stands for add up to
\* n-2; and an emitter whose table has a valid split for every interval it
\* can reach ends with an empty stack and exactly n-2 triangles emitted.
C8_EmitterTerminates ==
    /\ []((pc \in {"emit", "cleanup"} /\ \A iv \in visited : ValidSplit(iv[1], iv[2]))
            => Len(emitted) + Pending(todo) = n - 2)
    /\ ((TablesBuilt /\ ValidTree(0, n - 1))
            ~> (pc = "cleanup" /\ todo = <<>> /\ Len(emitted) = n - 2))

\* the emitter of a hexagon has ended
C8_Witness ==
    /\ pc = "cleanup"
    /\ n = 6
    /\ todo = <<>>
    /\ Cardinality(visited) = 4
    /\ \A iv \in visited : ValidSplit(iv[1], iv[2])

----------------------------------------------------------------------------
(* C9 *)

\* C9: every interval of more than one edge that the emitter has popped has
\* a split strictly inside it, and every triangle emitted has three
\* increasing indices of the vertex list.
C9_SplitsInRange ==
    pc \in {"emit", "cleanup", "crashed"} =>
        /\ \A iv \in visited : ValidSplit(iv[1], iv[2])
        /\ \A t \in 1..Len(emitted) :
              /\ InRange(emitted[t][1]) /\ InRange(emitted[t][2]) /\ InRange(emitted[t][3])
              /\ emitted[t][1] < emitted[t][2]
              /\ emitted[t][2] < emitted[t][3]

----------------------------------------------------------------------------
(* C2 *)

\* C2: no edge of a triangle added for the face, other than the edges of the
\* face's own boundary, was an interior edge of the mesh when the
\* triangulation of the face began.
C2_NoInteriorDiagonal ==
    pc \in {"emit", "cleanup", "crashed"} =>
        \A f \in AddedFaces : \A p \in 1..3 :
            LET a == faces[f].verts[p]
                b == faces[f].verts[NextPos(3, p)]
            IN  ~OnOwnBoundary(a, b) => ~InteriorBefore(a, b)

----------------------------------------------------------------------------
(* C10 *)

TriangleEdges(t) == {{t[1], t[2]}, {t[2], t[3]}, {t[1], t[3]}}

EmittedSet == {emitted[t] : t \in 1..Len(emitted)}

\* the number of emitted triangles with the edge e
Uses(e) == Cardinality({t \in 1..Len(emitted) : e \in TriangleEdges(emitted[t])})

PolygonEdges == {{i, i + 1} : i \in 0..(n - 2)} \cup {{0, n - 1}}

UsedDiagonals == (UNION {TriangleEdges(t) : t \in EmittedSet}) \ PolygonEdges

\* C10: when the root interval of an accepted face has a triangulation, the
\* triangles emitted list increasing indices, every edge of the polygon is
\* in exactly one of them, and they use exactly n-3 diagonals, each in
\* exactly two of them.
C10_EmittedIsTriangulation ==
    (pc = "cleanup" /\ weight_[0][n - 1] < FLT_MAX) =>
        /\ n >= 4
        /\ \A t \in 1..Len(emitted) :
              /\ InRange(emitted[t][1]) /\ InRange(emitted[t][3])
              /\ emitted[t][1] < emitted[t][2]
              /\ emitted[t][2] < emitted[t][3]
        /\ \A e \in PolygonEdges : Uses(e) = 1
        /\ Cardinality(UsedDiagonals) = n - 3
        /\ \A e \in UsedDiagonals : Uses(e) = 2

\* a hexagon with a forbidden diagonal has been triangulated
C10_Witness ==
    /\ pc = "cleanup"
    /\ n = 6
    /\ weight_[0][n - 1] < FLT_MAX
    /\ ~NoInteriorConflict
    /\ Len(emitted) = 4

====
